---- MODULE Spec2Model ----
(***************************************************************************)
(* Workflow execution engine of NetworkAutomation.                         *)
(*                                                                         *)
(* automation/tasks.py: execute_workflow (the orchestrator) and            *)
(* execute_workflow_stage (the stage runner); automation/ssh_utils.py:     *)
(* execute_command_on_device and validate_output; automation/models.py:    *)
(* the WorkflowExecution and CommandExecution rows.                        *)
(*                                                                         *)
(* Text (command output, validation patterns, diagnostics) is a sequence   *)
(* of tokens.  The patterns of the model are literal tokens, for which     *)
(* re.search is a sub-sequence search and re.fullmatch is equality; the    *)
(* token "(" stands for an unbalanced parenthesis, which re refuses to     *)
(* compile.                                                                *)
(***************************************************************************)
EXTENDS Integers, Sequences, FiniteSets, TLC

VARIABLES
    workflow,            \* Workflow row: the four command lists
    host,                \* worker environment and Device row seen by the executor
    execution,           \* the persisted WorkflowExecution row
    command_executions,  \* the CommandExecution table, in creation order
    notifications,       \* events handed to WebhookManager.send_webhook_notification
    pc,                  \* position of the execute_workflow task
    stage_name,          \* argument of the running execute_workflow_stage call
    i,                   \* index of the next command of that call
    results,             \* local list `results` of that call
    stage_return,        \* return values of the stage calls made so far
    task_result,         \* value returned by the task
    attempts,            \* history: what each command sent met on the device
    trigger,             \* the HTTP request of a trigger view and its progress
    sessions,            \* the SSHConnection objects the executor has created
    probe,               \* a function called on its own: arguments and return
    suspended            \* the frame of a second task, while the first one runs

vars == <<workflow, host, execution, command_executions, notifications, pc,
          stage_name, i, results, stage_return, task_result, attempts,
          trigger, sessions, probe, suspended>>

\* What the orchestrator and the stage runner leave alone.  The executor is
\* an operator in their actions; its steps are the actions over `sessions`.
others == <<trigger, sessions, probe, suspended>>

----------------------------------------------------------------------------
(* Bounds *)

\* Largest number of commands of a workflow, over its four lists together.
MaxTotal == 3

----------------------------------------------------------------------------
(* Data *)

Stages == {"pre_check", "implementation", "post_check", "rollback"}

\* Python None, and the unset value of a nullable column.
None == "None"

\* timezone.now()
Now == "now"

EmptyText == << >>

\* A command entry that is a plain string.
StringCommand(text) ==
    [is_dict |-> FALSE, command |-> text, regex_pattern |-> EmptyText,
     has_operator |-> FALSE, operator |-> "", is_dynamic |-> FALSE]

\* A command entry that is a dictionary.
DictCommand(text, pattern, has_op, op, dyn) ==
    [is_dict |-> TRUE, command |-> text, regex_pattern |-> pattern,
     has_operator |-> has_op, operator |-> op, is_dynamic |-> dyn]

\* The command entries the workflows of the model are built from: a command
\* without a pattern (a plain string in the pre_check and implementation
\* lists, a dictionary in the post_check and rollback lists), a dictionary
\* whose output must not contain UP, and a dynamic dictionary whose output
\* must contain the value of the parameter `state`.
Commands(stage) ==
    { IF stage \in {"pre_check", "implementation"}
      THEN StringCommand("show version")
      ELSE DictCommand("show version", EmptyText, FALSE, "", FALSE),
      DictCommand("show logging", <<"UP">>, TRUE, "not_contains", FALSE),
      DictCommand("show interface", <<"{{state}}">>, FALSE, "", TRUE) }

\* The dynamic_params of an execution, as the (name, value) pairs of the
\* JSON object: none, a string value, a JSON number.
DynamicParams ==
    { << >>,
      << [name |-> "state", is_str |-> TRUE, value |-> <<"UP">>] >>,
      << [name |-> "state", is_str |-> FALSE, value |-> <<"1">>] >> }

\* What the device prints for a command that was sent.
DeviceOutputs == { <<"UP">>, <<"DOWN">> }

\* The worker environment (TACACS_* variables) and the Device row.  Device
\* (models.py) declares no enable_password field, so the lookup at
\* ssh_utils.py:136 raises AttributeError ("missing"); serializers.py:29 and
\* api_views.py:396 are written for a Device that has the field ("set").
Hosts ==
    { [credentials |-> FALSE, enable_password |-> "missing"],
      [credentials |-> TRUE,  enable_password |-> "missing"],
      [credentials |-> TRUE,  enable_password |-> "set"] }

\* What one call of the executor meets on the network.
Calls == [connect : BOOLEAN, send : {"ok"}, output : DeviceOutputs]

----------------------------------------------------------------------------
(* automation/ssh_utils.py *)

\* SSHConnection.execute_command on a connected session: send the command,
\* drain the output; an exception while sending or reading is returned.
ssh_execute_command(call, command) ==
    IF call.send = "ok"
    THEN <<TRUE, call.output>>
    ELSE <<FALSE, <<"Socket is closed">>>>

\* execute_command_on_device(device, command) -> (success, output)
execute_command_on_device(h, call, command) ==
    IF ~h.credentials
    THEN <<FALSE, <<"TACACS credentials not configured">>>>
    ELSE IF ~call.connect
    THEN <<FALSE, <<"Failed to connect to device">>>>
    ELSE IF h.enable_password = "missing"
    THEN <<FALSE, <<"'Device' object has no attribute 'enable_password'">>>>
    ELSE ssh_execute_command(call, command)

\* re.compile refuses the pattern.
InvalidPattern(pattern) == \E k \in 1..Len(pattern) : pattern[k] = "("

\* re.search(pattern, output): the pattern occurs somewhere in the output.
Search(pattern, output) ==
    \E k \in 0..(Len(output) - Len(pattern)) :
        SubSeq(output, k + 1, k + Len(pattern)) = pattern

\* re.fullmatch(pattern, output): the pattern matches the whole output.
FullMatch(pattern, output) == pattern = output

\* str.lower() on the operator names used by the model.
Lower(op) ==
    CASE op = "CONTAINS" -> "contains"
      [] op = "EQUAL" -> "equal"
      [] op = "NOT_EQUAL" -> "not_equal"
      [] op = "NOT_CONTAINS" -> "not_contains"
      [] OTHER -> op

\* Mutant of validate_output: a pattern that cannot be compiled counts as a
\* pattern that does not match.
validate_output_no_match(output, validation_rule) ==
    LET pattern == validation_rule.regex
        operator == IF validation_rule.has_operator
                    THEN Lower(validation_rule.operator)
                    ELSE "contains"
        match == ~InvalidPattern(pattern) /\ Search(pattern, output)
        full_match == ~InvalidPattern(pattern) /\ FullMatch(pattern, output)
    IN  CASE operator = "equal" ->
                <<full_match, IF full_match THEN pattern ELSE EmptyText>>
          [] operator = "not_equal" ->
                <<~full_match,
                  IF ~full_match
                  THEN <<"Output does not match pattern">>
                  ELSE <<"Output matches pattern (validation failed)">>>>
          [] operator = "not_contains" ->
                <<~match,
                  IF ~match
                  THEN <<"Pattern not found (validation passed)">>
                  ELSE <<"Pattern found (validation failed)">>>>
          [] OTHER ->
                <<match, IF match THEN pattern ELSE EmptyText>>

\* validate_output(output, validation_rule) -> (passed, detail), for a rule
\* that carries a 'regex' key.
validate_output(output, validation_rule) ==
    LET pattern == validation_rule.regex
        operator == IF validation_rule.has_operator
                    THEN Lower(validation_rule.operator)
                    ELSE "contains"
        match == Search(pattern, output)
        full_match == FullMatch(pattern, output)
    IN  IF InvalidPattern(pattern)
        THEN <<FALSE, <<"missing ), unterminated subpattern">>>>
        ELSE CASE operator = "contains" ->
                    <<match, IF match THEN pattern ELSE EmptyText>>
               [] operator = "equal" ->
                    <<full_match, IF full_match THEN pattern ELSE EmptyText>>
               [] operator = "not_equal" ->
                    <<~full_match,
                      IF ~full_match
                      THEN <<"Output does not match pattern">>
                      ELSE <<"Output matches pattern (validation failed)">>>>
               [] operator = "not_contains" ->
                    <<~match,
                      IF ~match
                      THEN <<"Pattern not found (validation passed)">>
                      ELSE <<"Pattern found (validation failed)">>>>
               [] OTHER ->
                    <<match, IF match THEN pattern ELSE EmptyText>>

----------------------------------------------------------------------------
(* automation/models.py *)

\* A result column of WorkflowExecution: '{}' by default, and after
\* set_<stage>_results the dictionary {'<stage>_results': list}.
EmptyBlob == [stored |-> FALSE, list |-> << >>]

\* The column a stage's results are written to.
ResultsField(stage) ==
    CASE stage = "pre_check" -> "pre_check_results"
      [] stage = "implementation" -> "implementation_results"
      [] stage = "post_check" -> "post_check_results"
      [] stage = "rollback" -> "rollback_results"

\* No second task.
NoContext == [pc |-> "none"]

\* WorkflowExecution.objects.create(status='pending', current_stage=...) and
\* set_dynamic_params by a trigger; the other columns take their defaults.
NewExecution(stage, params) ==
    [id |-> 1, status |-> "pending", current_stage |-> stage, started_at |-> None,
     completed_at |-> None, error_message |-> "", dynamic_params |-> params,
     pre_check_results |-> EmptyBlob, implementation_results |-> EmptyBlob,
     post_check_results |-> EmptyBlob, rollback_results |-> EmptyBlob]

\* str(command_data), the command text of the record written for an exception.
Str(command_data) ==
    IF command_data.is_dict
    THEN "{'command': " \o command_data.command \o "}"
    ELSE command_data.command

----------------------------------------------------------------------------
(* automation/tasks.py: execute_workflow_stage *)

\* dict.get(key, default) on an entry of `results`.
Get(result, key, default) ==
    IF key \in DOMAIN result THEN result[key] ELSE default

\* "{{name}}"
Placeholder(param_name) == "{{" \o param_name \o "}}"

\* Mutant of Replace: only a placeholder at the start is replaced.
ReplaceAtStart(text, placeholder, value) ==
    IF text # EmptyText /\ Head(text) = placeholder
    THEN value \o Tail(text)
    ELSE text

\* str.replace(placeholder, value) on a pattern.
RECURSIVE Replace(_, _, _)
Replace(text, placeholder, value) ==
    IF text = EmptyText
    THEN EmptyText
    ELSE (IF Head(text) = placeholder THEN value ELSE <<Head(text)>>)
         \o Replace(Tail(text), placeholder, value)

\* The loop over execution_dynamic_params.items(): [raised, regex].  A value
\* that is not a string makes str.replace raise TypeError.
RECURSIVE Substitute(_, _)
Substitute(dynamic_regex, params) ==
    IF params = << >>
    THEN [raised |-> FALSE, regex |-> dynamic_regex]
    ELSE LET placeholder == Placeholder(Head(params).name)
             present == \E k \in 1..Len(dynamic_regex) :
                            dynamic_regex[k] = placeholder
         IN  IF ~present
             THEN Substitute(dynamic_regex, Tail(params))
             ELSE IF ~Head(params).is_str
             THEN [raised |-> TRUE, regex |-> dynamic_regex]
             ELSE Substitute(
                      Replace(dynamic_regex, placeholder, Head(params).value),
                      Tail(params))

\* The pattern handed to validate_output for a command that has one.
ResolvePattern(command_data, execution_dynamic_params) ==
    IF command_data.is_dict /\ command_data.is_dynamic
       /\ execution_dynamic_params # << >>
    THEN Substitute(command_data.regex_pattern, execution_dynamic_params)
    ELSE [raised |-> FALSE, regex |-> command_data.regex_pattern]

\* Mutant of CommandRow: the row is filed under the first execution.
CommandRowOfFirst(stage, command, success, output, validation_result) ==
    [workflow_execution |-> 1, stage |-> stage, command |-> command,
     status |-> IF success THEN "completed" ELSE "failed",
     output |-> output, error_output |-> EmptyText,
     validation_result |-> validation_result,
     started_at |-> Now, completed_at |-> Now]

\* The CommandExecution row after cmd_exec.save().
CommandRow(stage, command, success, output, validation_result) ==
    [workflow_execution |-> execution.id, stage |-> stage, command |-> command,
     status |-> IF success THEN "completed" ELSE "failed",
     output |-> output, error_output |-> EmptyText,
     validation_result |-> validation_result,
     started_at |-> Now, completed_at |-> Now]

\* The CommandExecution row written by the exception handler.
FailedRow(stage, command_data, error) ==
    [workflow_execution |-> execution.id, stage |-> stage,
     command |-> Str(command_data), status |-> "failed",
     output |-> EmptyText, error_output |-> error,
     validation_result |-> EmptyText,
     started_at |-> None, completed_at |-> Now]

\* Mutant of AllSucceeded: the transport outcome is not looked at.
AllValidated(rs) ==
    \A k \in 1..Len(rs) : Get(rs[k], "validation_passed", TRUE)

\* Mutant of AllSucceeded: a stage needs a successful command to pass.
AllSucceededNonEmpty(rs) ==
    \E k \in 1..Len(rs) :
        Get(rs[k], "success", FALSE) /\ Get(rs[k], "validation_passed", TRUE)

\* return all(result.get('success', False) and
\*            result.get('validation_passed', True) for result in results)
AllSucceeded(rs) ==
    \A k \in 1..Len(rs) :
        Get(rs[k], "success", FALSE) /\ Get(rs[k], "validation_passed", TRUE)

\* Mutant of HasPattern: the validation block is entered for every command.
HasPatternAlways(regex_pattern) == TRUE

\* `if regex_pattern:` (line 176)
HasPattern(regex_pattern) == regex_pattern # EmptyText

\* Mutant of ValidationStops: a failed validation ends the rollback stage too.
ValidationStopsAlways(stage) == TRUE

\* Lines 207-212: the stages in which a failed validation returns False.
ValidationStops(stage) ==
    stage = "pre_check" \/ stage \in {"implementation", "post_check"}

\* Line 232: the stages in which an exception returns False.
ExceptionStops(stage) ==
    stage \in {"pre_check", "implementation", "post_check"}

\* What the command sent met: the executor's answer and the validator's.
Attempt(command_data, success, output, validation) ==
    [stage |-> stage_name, command |-> command_data.command,
     regex_pattern |-> command_data.regex_pattern,
     success |-> success, output |-> output, validation |-> validation]

\* The stage call returns: the caller resumes with the value.
StageReturns(value, rows, rs) ==
    /\ command_executions' = rows
    /\ results' = rs
    /\ stage_return' = [s \in DOMAIN stage_return \cup {stage_name} |->
                           IF s = stage_name THEN value ELSE stage_return[s]]
    /\ pc' = "returned"
    /\ UNCHANGED <<others, workflow, host, execution, notifications, stage_name, i,
                   task_result>>

\* The loop goes on to the next command.
StageContinues(rows, rs) ==
    /\ command_executions' = rows
    /\ results' = rs
    /\ i' = i + 1
    /\ UNCHANGED <<others, workflow, host, execution, notifications, pc, stage_name,
                   stage_return, task_result>>

\* except Exception as e: a failed record and a failed entry; a critical
\* stage returns False at once.
CommandRaised(command_data, rows, rs, error) ==
    LET rows2 == Append(rows, FailedRow(stage_name, command_data, error))
        rs2 == Append(rs, [command |-> Str(command_data), success |-> FALSE,
                           error |-> error])
    IN  IF ExceptionStops(stage_name)
        THEN StageReturns(FALSE, rows2, rs2)
        ELSE StageContinues(rows2, rs2)

\* Mutant of AfterValidation: the early return is missing.
AfterValidationContinues(validation_passed, rows, rs) ==
    StageContinues(rows, rs)

\* After validate_output: `if not validation_passed` returns False in the
\* three critical stages.
AfterValidation(validation_passed, rows, rs) ==
    IF ~validation_passed /\ ValidationStops(stage_name)
    THEN StageReturns(FALSE, rows, rs)
    ELSE StageContinues(rows, rs)

\* One iteration of `for i, command_data in enumerate(commands)`.
RunCommand ==
    /\ pc = "stage"
    /\ i <= Len(workflow[stage_name])
    /\ \E call \in Calls :
        LET command_data == workflow[stage_name][i]
            command == command_data.command
            regex_pattern == command_data.regex_pattern
            r == execute_command_on_device(host, call, command)
            success == r[1]
            output == r[2]
            row == CommandRow(stage_name, command, success, output, EmptyText)
            entry == [command |-> command, success |-> success,
                      output |-> output, validation_passed |-> TRUE,
                      regex_pattern |-> regex_pattern]
        IN  IF ~HasPattern(regex_pattern)
            THEN /\ StageContinues(Append(command_executions, row),
                                   Append(results, entry))
                 /\ attempts' = Append(attempts,
                        Attempt(command_data, success, output, "none"))
            ELSE LET resolved == ResolvePattern(command_data,
                                     execution.dynamic_params)
                     validation_rule ==
                         [regex |-> resolved.regex,
                          has_operator |-> command_data.is_dict
                              /\ command_data.has_operator,
                          operator |-> command_data.operator]
                     v == validate_output(output, validation_rule)
                 IN  IF resolved.raised
                     THEN /\ CommandRaised(command_data,
                                 Append(command_executions, row),
                                 Append(results, entry),
                                 <<"replace() argument 2 must be str">>)
                          /\ attempts' = Append(attempts,
                                 Attempt(command_data, success, output,
                                         "raised"))
                     ELSE /\ AfterValidation(v[1],
                                 Append(command_executions,
                                     CommandRow(stage_name, command, success,
                                                output, v[2])),
                                 Append(results,
                                     [command |-> command,
                                      success |-> success,
                                      output |-> output,
                                      validation_passed |-> v[1],
                                      regex_pattern |-> regex_pattern,
                                      validation_result |-> v[2]]))
                          /\ attempts' = Append(attempts,
                                 Attempt(command_data, success, output,
                                     IF v[1] THEN "passed" ELSE "failed"))

\* Mutant of StoreResults: the stage is written to current_stage as well.
StoreResultsAndStage ==
    /\ pc = "stage"
    /\ i > Len(workflow[stage_name])
    /\ execution' = [execution EXCEPT
                        ![ResultsField(stage_name)] =
                            [stored |-> TRUE, list |-> results],
                        !.current_stage = stage_name]
    /\ stage_return' = [s \in DOMAIN stage_return \cup {stage_name} |->
                           IF s = stage_name THEN AllSucceeded(results)
                           ELSE stage_return[s]]
    /\ pc' = "returned"
    /\ UNCHANGED <<others, workflow, host, command_executions, notifications,
                   stage_name, i, results, task_result, attempts>>

\* After the loop: store the results on the execution, save, return all(...).
StoreResults ==
    /\ pc = "stage"
    /\ i > Len(workflow[stage_name])
    /\ execution' = [execution EXCEPT
                        ![ResultsField(stage_name)] =
                            [stored |-> TRUE, list |-> results]]
    /\ stage_return' = [s \in DOMAIN stage_return \cup {stage_name} |->
                           IF s = stage_name THEN AllSucceeded(results)
                           ELSE stage_return[s]]
    /\ pc' = "returned"
    /\ UNCHANGED <<others, workflow, host, command_executions, notifications,
                   stage_name, i, results, task_result, attempts>>

----------------------------------------------------------------------------
(* automation/tasks.py: execute_workflow *)

\* WebhookManager.send_webhook_notification(workflow_execution, event_type)
Notify(event_type) == notifications' = Append(notifications, event_type)

\* execute_workflow_stage(workflow_execution, stage, commands) is called.
CallStage(stage) ==
    /\ pc' = "stage"
    /\ stage_name' = stage
    /\ i' = 1
    /\ results' = << >>

Returned(stage) ==
    /\ pc = "returned"
    /\ stage_name = stage

\* Lines 17-35: load the execution, mark it running, notify, run pre_check.
Begin ==
    /\ pc = "queued"
    /\ execution' = [execution EXCEPT !.status = "running",
                                      !.started_at = Now]
    /\ Notify("execution_started")
    /\ CallStage("pre_check")
    /\ UNCHANGED <<others, workflow, host, command_executions, stage_return,
                   task_result, attempts>>

\* Lines 37-49: pre_check did not pass.
PreCheckFailed ==
    /\ Returned("pre_check")
    /\ ~stage_return["pre_check"]
    /\ execution' = [execution EXCEPT
                        !.status = "failed",
                        !.current_stage = "pre_check",
                        !.error_message = "Pre-check validation failed",
                        !.completed_at = Now]
    /\ Notify("execution_failed")
    /\ pc' = "done"
    /\ task_result' = "failed"
    /\ UNCHANGED <<others, workflow, host, command_executions, stage_name, i,
                   results, stage_return, attempts>>

\* Mutant of RunImplementation: the result of pre_check is not looked at.
RunImplementationUnchecked ==
    /\ Returned("pre_check")
    /\ CallStage("implementation")
    /\ UNCHANGED <<others, workflow, host, execution, command_executions,
                   notifications, stage_return, task_result, attempts>>

\* Lines 51-55: pre_check passed, run the implementation stage.
RunImplementation ==
    /\ Returned("pre_check")
    /\ stage_return["pre_check"]
    /\ CallStage("implementation")
    /\ UNCHANGED <<others, workflow, host, execution, command_executions,
                   notifications, stage_return, task_result, attempts>>

\* Mutant of ImplementationFailed: the status is not set to rolling_back.
ImplementationFailedKeepsStatus ==
    /\ Returned("implementation")
    /\ ~stage_return["implementation"]
    /\ execution' = [execution EXCEPT !.current_stage = "rollback"]
    /\ CallStage("rollback")
    /\ UNCHANGED <<others, workflow, host, command_executions, notifications,
                   stage_return, task_result, attempts>>

\* Lines 57-66: the implementation failed, start the rollback.
ImplementationFailed ==
    /\ Returned("implementation")
    /\ ~stage_return["implementation"]
    /\ execution' = [execution EXCEPT !.status = "rolling_back",
                                      !.current_stage = "rollback"]
    /\ CallStage("rollback")
    /\ UNCHANGED <<others, workflow, host, command_executions, notifications,
                   stage_return, task_result, attempts>>

\* Mutant of RunPostCheck: the result of the implementation is not looked at.
RunPostCheckUnchecked ==
    /\ Returned("implementation")
    /\ CallStage("post_check")
    /\ UNCHANGED <<others, workflow, host, execution, command_executions,
                   notifications, stage_return, task_result, attempts>>

\* Lines 78-82: the implementation succeeded, run the post_check stage.
RunPostCheck ==
    /\ Returned("implementation")
    /\ stage_return["implementation"]
    /\ CallStage("post_check")
    /\ UNCHANGED <<others, workflow, host, execution, command_executions,
                   notifications, stage_return, task_result, attempts>>

\* Lines 84-92: post_check did not pass, start the rollback.
PostCheckFailed ==
    /\ Returned("post_check")
    /\ ~stage_return["post_check"]
    /\ execution' = [execution EXCEPT !.status = "rolling_back",
                                      !.current_stage = "rollback"]
    /\ CallStage("rollback")
    /\ UNCHANGED <<others, workflow, host, command_executions, notifications,
                   stage_return, task_result, attempts>>

\* Lines 68-76 (after a failed implementation) and 94-103 (after a failed
\* post_check): the rollback stage returned, whatever its value.
RolledBack ==
    /\ Returned("rollback")
    /\ execution' =
           IF stage_return["implementation"]
           THEN [execution EXCEPT
                    !.status = "rolled_back",
                    !.error_message = "Post-check validation failed",
                    !.completed_at = Now]
           ELSE [execution EXCEPT !.status = "rolled_back",
                                  !.completed_at = Now]
    /\ Notify("execution_failed")
    /\ pc' = "done"
    /\ task_result' = "rolled_back"
    /\ UNCHANGED <<others, workflow, host, command_executions, stage_name, i,
                   results, stage_return, attempts>>

\* Lines 105-116: the three stages passed.
Completed ==
    /\ Returned("post_check")
    /\ stage_return["post_check"]
    /\ execution' = [execution EXCEPT !.status = "completed",
                                      !.current_stage = "completed",
                                      !.completed_at = Now]
    /\ Notify("execution_completed")
    /\ pc' = "done"
    /\ task_result' = "success"
    /\ UNCHANGED <<others, workflow, host, command_executions, stage_name, i,
                   results, stage_return, attempts>>

\* A save() of the execution raises (the store refuses the write): line 26,
\* line 246 inside the stage call, or the save of the branch that follows a
\* stage (lines 43, 62, 70, 88, 97, 109).  Nothing is written and the
\* exception propagates to `except Exception` at line 121.
SaveRaises ==
    /\ \/ pc = "queued"
       \/ pc = "stage" /\ i > Len(workflow[stage_name])
       \/ /\ pc = "returned"
          /\ ~(stage_name \in {"pre_check", "implementation"}
                /\ stage_return[stage_name])
    /\ pc' = "raised"
    /\ UNCHANGED <<others, workflow, host, execution, command_executions,
                   notifications, stage_name, i, results, stage_return,
                   task_result, attempts>>

\* Lines 121-131: reload the execution and mark it failed; when that save
\* raises too, `except: pass`.
HandleException ==
    /\ pc = "raised"
    /\ \E saved \in BOOLEAN :
          execution' = IF saved
                       THEN [execution EXCEPT
                                !.status = "failed",
                                !.error_message = "database is locked",
                                !.completed_at = Now]
                       ELSE execution
    /\ pc' = "done"
    /\ task_result' = "error"
    /\ UNCHANGED <<others, workflow, host, command_executions, notifications,
                   stage_name, i, results, stage_return, attempts>>

----------------------------------------------------------------------------
(* Specification *)

\* The lengths of the four command lists of a workflow.
Lengths ==
    { l \in [Stages -> 0..MaxTotal] :
        l["pre_check"] + l["implementation"] + l["post_check"]
            + l["rollback"] <= MaxTotal }

\* Some command of the workflow is flagged is_dynamic.
IsDynamic(w) ==
    \E s \in Stages : \E k \in 1..Len(w[s]) : w[s][k].is_dynamic

\* A trigger has created the execution and queued execute_workflow for it:
\* workflow_execute (or ExecutionViewSet.execute), which writes current_stage
\* 'pre_check' and no dynamic_params, or execute_workflow_api, which writes
\* current_stage 'pending' and the caller's dynamic_params.  dynamic_params
\* is read for dynamic commands only (line 182), so the second trigger is
\* taken for the workflows that have one.
Init ==
    /\ \E l \in Lengths :
          workflow \in
              [pre_check : [1..l["pre_check"] -> Commands("pre_check")],
               implementation :
                   [1..l["implementation"] -> Commands("implementation")],
               post_check : [1..l["post_check"] -> Commands("post_check")],
               rollback : [1..l["rollback"] -> Commands("rollback")]]
    /\ host \in Hosts
    /\ \/ execution = NewExecution("pre_check", << >>)
       \/ /\ IsDynamic(workflow)
          /\ \E params \in DynamicParams \ {<< >>} :
                execution = NewExecution("pending", params)
    /\ command_executions = << >>
    /\ notifications = << >>
    /\ pc = "queued"
    /\ stage_name = None
    /\ i = 0
    /\ results = << >>
    /\ stage_return = [s \in {} |-> TRUE]
    /\ task_result = None
    /\ attempts = << >>
    /\ trigger = None
    /\ sessions = << >>
    /\ probe = None
    /\ suspended = NoContext

Next ==
    \/ Begin
    \/ RunCommand
    \/ StoreResults
    \/ PreCheckFailed
    \/ RunImplementation
    \/ ImplementationFailed
    \/ RunPostCheck
    \/ PostCheckFailed
    \/ RolledBack
    \/ Completed

\* The store accepts every write.
Spec == Init /\ [][Next]_vars

NextFault ==
    \/ Next
    \/ SaveRaises
    \/ HandleException

\* A save of the execution may raise.
FaultSpec == Init /\ [][NextFault]_vars

----------------------------------------------------------------------------
(* Properties *)

\* The CommandExecution rows of a stage.
Rows(stage) ==
    { k \in 1..Len(command_executions) : command_executions[k].stage = stage }

\* The commands of a stage that were sent to the device.
Sent(stage) == { k \in 1..Len(attempts) : attempts[k].stage = stage }

\* The stage call has returned False / True.
Failed(stage) == stage \in DOMAIN stage_return /\ ~stage_return[stage]
Passed(stage) == stage \in DOMAIN stage_return /\ stage_return[stage]

Last(seq) == seq[Len(seq)]

\* C1: once the pre_check stage has failed, no command of another stage is
\* ever sent or recorded, no other stage is run, and the task ends with
\* status 'failed' and current_stage 'pre_check'.
C1_PreCheckFailureStops ==
    Failed("pre_check") =>
        /\ \A s \in Stages \ {"pre_check"} :
              Rows(s) = {} /\ Sent(s) = {} /\ s \notin DOMAIN stage_return
        /\ stage_name = "pre_check"
        /\ pc \in {"returned", "done"}
        /\ pc = "done" =>
              /\ execution.status = "failed"
              /\ execution.current_stage = "pre_check"
              /\ task_result = "failed"

\* A pre_check stage that ran commands has failed and the task has ended,
\* with a rollback list that was left alone.
C1_Witness ==
    /\ pc = "done"
    /\ Failed("pre_check")
    /\ Sent("pre_check") # {}
    /\ workflow["rollback"] # << >>
    /\ workflow["implementation"] # << >>

\* C2: when pre_check passed and the implementation or the post_check stage
\* failed, the task ends with the rollback stage run, one rollback
\* CommandExecution row per entry of the rollback list, and status
\* 'rolled_back'.
C2_RollbackOnFailure ==
    (/\ pc = "done"
     /\ Passed("pre_check")
     /\ Failed("implementation") \/ Failed("post_check"))
    => /\ "rollback" \in DOMAIN stage_return
       /\ Cardinality(Rows("rollback")) = Len(workflow["rollback"])
       /\ execution.status = "rolled_back"

\* The status changes the state machine of the orchestrator names.
StatusPath ==
    { <<"pending", "running">>, <<"running", "completed">>,
      <<"running", "failed">>, <<"running", "rolling_back">>,
      <<"rolling_back", "rolled_back">> }

\* C3 as stated: the persisted status changes only along pending -> running
\* -> completed, running -> failed, running -> rolling_back -> rolled_back,
\* and rolling_back is entered only after a failed implementation or
\* post_check stage.
C3_StatusPath ==
    [][ execution'.status # execution.status =>
          /\ <<execution.status, execution'.status>> \in StatusPath
          /\ execution'.status = "rolling_back" =>
                Failed("implementation") \/ Failed("post_check") ]_vars

\* C3 as amended: the same, except that the top-level exception handler
\* moves the status to 'failed' from whatever it was (pending, running or
\* rolling_back).
C3_StatusPathOrHandler ==
    [][ execution'.status # execution.status =>
          /\ \/ <<execution.status, execution'.status>> \in StatusPath
             \/ /\ pc = "raised"
                /\ execution.status \in {"pending", "running", "rolling_back"}
                /\ execution'.status = "failed"
          /\ execution'.status = "rolling_back" =>
                Failed("implementation") \/ Failed("post_check") ]_vars

\* The exception handler has marked an execution failed that was rolling back.
C3_Witness ==
    /\ pc = "done"
    /\ task_result = "error"
    /\ execution.status = "failed"
    /\ execution.current_stage = "rollback"
    /\ Sent("rollback") # {}

\* C4: every task that did not complete the workflow ends with the execution
\* in status failed or rolled_back and an execution_failed notification sent.
C4_FailureEndsNotified ==
    (pc = "done" /\ task_result # "success") =>
        /\ execution.status \in {"failed", "rolled_back"}
        /\ \E k \in 1..Len(notifications) :
              notifications[k] = "execution_failed"

\* C5: in a pre_check, implementation or post_check stage no command is sent
\* after a command of that stage whose transport failed.
C5_TransportFailureStops ==
    \A k \in 1..Len(attempts) :
        (attempts[k].stage # "rollback" /\ ~attempts[k].success) =>
            \A j \in (k + 1)..Len(attempts) :
                attempts[j].stage # attempts[k].stage

\* C6: when the validation of a command of a pre_check, implementation or
\* post_check stage has failed, the stage has returned False, and the only
\* commands sent afterwards are rollback commands.
C6_ValidationFailureStops ==
    \A k \in 1..Len(attempts) :
        (attempts[k].stage # "rollback" /\ attempts[k].validation = "failed")
        => /\ Failed(attempts[k].stage)
           /\ \A j \in (k + 1)..Len(attempts) : attempts[j].stage = "rollback"

\* The first of several pre_check commands failed validation and the task
\* has ended.
C6_Witness ==
    /\ pc = "done"
    /\ Len(workflow["pre_check"]) >= 2
    /\ Len(attempts) = 1
    /\ attempts[1].validation = "failed"
    /\ attempts[1].success

\* C7: whenever the stage call has returned, the execution's result column
\* of that stage holds the outcomes accumulated by the call.
C7_ResultsPersisted ==
    pc = "returned" =>
        execution[ResultsField(stage_name)] =
            [stored |-> TRUE, list |-> results]

\* A command that was sent met a successful transport and, when it has a
\* pattern, a validation that ran and passed.
Succeeded(attempt) ==
    attempt.success /\ attempt.validation \in {"none", "passed"}

\* C8: a stage call returns True exactly when every command it sent had a
\* successful transport and, when it has a pattern, passed validation.
C8_StageReturn ==
    \A s \in DOMAIN stage_return :
        stage_return[s] <=> \A k \in Sent(s) : Succeeded(attempts[k])

\* A stage returned False although the validation of its transport-failed
\* command passed (not_contains on the error text).
C8_Witness ==
    \E s \in DOMAIN stage_return :
        /\ ~stage_return[s]
        /\ Cardinality(Sent(s)) = 1
        /\ \A k \in Sent(s) :
              ~attempts[k].success /\ attempts[k].validation = "passed"

\* C9: a stage with an empty command list returns True and sends nothing;
\* the orchestrator goes on to the next stage, and a workflow whose three
\* gating lists are empty ends 'completed'.
C9_EmptyStagePasses ==
    /\ \A s \in DOMAIN stage_return :
          workflow[s] = << >> =>
              stage_return[s] /\ Sent(s) = {} /\ Rows(s) = {}
    /\ pc = "done" =>
          /\ workflow["pre_check"] = << >> =>
                "implementation" \in DOMAIN stage_return
          /\ (Passed("pre_check") /\ workflow["implementation"] = << >>) =>
                "post_check" \in DOMAIN stage_return
          /\ (/\ workflow["pre_check"] = << >>
              /\ workflow["implementation"] = << >>
              /\ workflow["post_check"] = << >>) =>
                /\ execution.status = "completed"
                /\ execution.current_stage = "completed"
                /\ command_executions = << >>

\* A workflow with three empty gating lists and a rollback list has ended.
C9_Witness ==
    /\ pc = "done"
    /\ workflow["pre_check"] = << >>
    /\ workflow["implementation"] = << >>
    /\ workflow["post_check"] = << >>
    /\ workflow["rollback"] # << >>
    /\ execution.status = "completed"

\* C10: for a command without a pattern no validation is run, and its entry
\* in the stage results counts as successful exactly when the executor
\* reported transport success, with the output recorded as received.
C10_NoPatternTransportOnly ==
    (/\ attempts # << >>
     /\ Last(attempts).stage = stage_name
     /\ Last(attempts).regex_pattern = EmptyText)
    => LET attempt == Last(attempts)
           result == Last(results)
           row == Last(command_executions)
       IN  /\ attempt.validation = "none"
           /\ "validation_result" \notin DOMAIN result
           /\ row.validation_result = EmptyText
           /\ (Get(result, "success", FALSE)
               /\ Get(result, "validation_passed", TRUE)) <=> attempt.success
           /\ result.output = attempt.output
           /\ row.status = (IF attempt.success THEN "completed" ELSE "failed")

\* Two commands without a pattern were sent, one as a plain string and met a
\* successful transport, one as a dictionary and met a failed one.
C10_Witness ==
    /\ Len(attempts) = 2
    /\ attempts[1].regex_pattern = EmptyText
    /\ attempts[2].regex_pattern = EmptyText
    /\ attempts[1].success
    /\ ~attempts[2].success
    /\ attempts[1].stage = "implementation"
    /\ attempts[2].stage = "post_check"

----------------------------------------------------------------------------
(* Functions called on their own *)

\* Longest output and longest pattern handed to a function called on its own.
MaxText == 2

\* The variables of the orchestrator and the stage runner.
engine == <<workflow, execution, command_executions, notifications, pc,
            stage_name, i, results, stage_return, task_result, attempts>>

\* No WorkflowExecution row exists.
NoExecution == [status |-> None]

\* No execute_workflow task exists.
NoTask ==
    /\ workflow = [pre_check |-> << >>, implementation |-> << >>,
                   post_check |-> << >>, rollback |-> << >>]
    /\ execution = NoExecution
    /\ command_executions = << >>
    /\ notifications = << >>
    /\ pc = "idle"
    /\ stage_name = None
    /\ i = 0
    /\ results = << >>
    /\ stage_return = [s \in {} |-> TRUE]
    /\ task_result = None
    /\ attempts = << >>

\* The texts of at most MaxText tokens.
Texts(tokens) == UNION { [1..n -> tokens] : n \in 0..MaxText }

\* The four operators validate_output names.
Operators == {"contains", "equal", "not_equal", "not_contains"}

\* An output and a pattern, before validate_output is called on them.
InitValidate ==
    /\ NoTask
    /\ host \in Hosts
    /\ host.credentials /\ host.enable_password = "set"
    /\ trigger = None
    /\ sessions = << >>
    /\ suspended = NoContext
    /\ \E output \in Texts({"UP", "DOWN"}) :
       \E regex \in Texts({"UP", "DOWN", "("}) :
          probe = [output |-> output, regex |-> regex,
                   returns |-> [o \in {} |-> << >>]]

\* validate_output(output, {'regex': regex, 'operator': operator}) is called
\* for an operator it was not called for yet.
Validate ==
    \E operator \in Operators \ DOMAIN probe.returns :
        /\ probe' = [probe EXCEPT !.returns =
               [o \in DOMAIN probe.returns \cup {operator} |->
                   IF o = operator
                   THEN validate_output(probe.output,
                            [regex |-> probe.regex, has_operator |-> TRUE,
                             operator |-> operator])
                   ELSE probe.returns[o]]]
        /\ UNCHANGED <<engine, host, trigger, sessions, suspended>>

\* validate_output on every output and pattern of at most MaxText tokens.
ValidateSpec == InitValidate /\ [][Validate]_vars

\* C11: for one output and one pattern, 'not_equal' passes exactly when
\* 'equal' fails, and 'not_contains' passes exactly when 'contains' fails.
C11_Complements ==
    \A pair \in {<<"equal", "not_equal">>, <<"contains", "not_contains">>} :
        (pair[1] \in DOMAIN probe.returns /\ pair[2] \in DOMAIN probe.returns)
        => (probe.returns[pair[2]][1] <=> ~probe.returns[pair[1]][1])

\* The dynamic_params objects of at most two (name, value) pairs: the names
\* are distinct, a value is a string or the JSON number 100.
ParamPairs ==
    [name : {"state", "vlan_id"}, is_str : {TRUE}, value : {<<"UP">>, <<"100">>}]
    \cup [name : {"state", "vlan_id"}, is_str : {FALSE}, value : {<<"100">>}]

ParamObjects ==
    { << >> }
    \cup { <<a>> : a \in ParamPairs }
    \cup { q \in { <<a, b>> : a, b \in ParamPairs } : q[1].name # q[2].name }

\* A dictionary command and the dynamic_params of its execution, before the
\* stage runner works out the pattern to validate with.
InitResolve ==
    /\ NoTask
    /\ host \in Hosts
    /\ host.credentials /\ host.enable_password = "set"
    /\ trigger = None
    /\ sessions = << >>
    /\ suspended = NoContext
    /\ \E pattern \in Texts({"VLAN", "{{state}}", "{{vlan_id}}"}) :
       \E dyn \in BOOLEAN :
       \E params \in ParamObjects :
          probe = [command_data |->
                       DictCommand("show vlan", pattern, FALSE, "", dyn),
                   params |-> params, done |-> FALSE, validated |-> FALSE,
                   raised |-> FALSE, regex |-> EmptyText]

\* Lines 176-192 of the stage runner on that command: no validation for an
\* empty pattern, else the pattern of validation_rule['regex'] or TypeError.
Resolve ==
    /\ ~probe.done
    /\ LET resolved == ResolvePattern(probe.command_data, probe.params)
       IN  probe' =
             IF ~HasPattern(probe.command_data.regex_pattern)
             THEN [probe EXCEPT !.done = TRUE]
             ELSE [probe EXCEPT !.done = TRUE,
                                !.validated = ~resolved.raised,
                                !.raised = resolved.raised,
                                !.regex = resolved.regex]
    /\ UNCHANGED <<engine, host, trigger, sessions, suspended>>

\* The pattern resolution on every pattern of at most MaxText tokens.
ResolveSpec == InitResolve /\ [][Resolve]_vars

\* What a token of a stored pattern stands for under dynamic_params: the
\* value of the parameter it is the placeholder of, or itself.
Value(token, params) ==
    IF \E k \in 1..Len(params) : Placeholder(params[k].name) = token
    THEN LET k == CHOOSE k \in 1..Len(params) :
                      Placeholder(params[k].name) = token
         IN  params[k].value
    ELSE <<token>>

\* A stored pattern with every placeholder replaced by its value.
RECURSIVE Substituted(_, _)
Substituted(pattern, params) ==
    IF pattern = EmptyText
    THEN EmptyText
    ELSE Value(Head(pattern), params) \o Substituted(Tail(pattern), params)

\* C12: the pattern a command is validated with is, for a command flagged
\* is_dynamic, the stored pattern with every '{{name}}' replaced by the value
\* of the parameter `name` and the other placeholders left as they are, and
\* for any other command the stored pattern, whatever dynamic_params holds.
C12_ResolvedPattern ==
    (probe.done /\ probe.validated) =>
        probe.regex =
            IF probe.command_data.is_dynamic
            THEN Substituted(probe.command_data.regex_pattern, probe.params)
            ELSE probe.command_data.regex_pattern

\* The pattern VLAN {{vlan_id}} of a dynamic command was resolved to VLAN 100
\* under two parameters.
C12_Witness ==
    /\ probe.done
    /\ probe.validated
    /\ probe.command_data.regex_pattern = <<"VLAN", "{{vlan_id}}">>
    /\ Len(probe.params) = 2
    /\ probe.regex = <<"VLAN", "100">>

----------------------------------------------------------------------------
(* Properties of the run, continued *)

\* The statuses a finished run leaves.
Terminal == {"completed", "failed", "rolled_back"}

\* The notifications that close a run.
Closing == {"execution_completed", "execution_failed"}

\* How many times an event was handed to the webhook manager.
Count(event_type) ==
    Cardinality({ k \in 1..Len(notifications) :
                    notifications[k] = event_type })

\* C13: execution_started is emitted once, after status 'running' is
\* persisted and before any command is sent; a run that has ended emitted
\* exactly one closing notification after it, execution_completed exactly
\* when the status is 'completed' and execution_failed when it is 'failed'
\* or 'rolled_back'; a closing notification is there only when the status
\* is terminal.
C13_Notifications ==
    /\ attempts # << >> => Count("execution_started") = 1
    /\ notifications # << >> =>
          /\ notifications[1] = "execution_started"
          /\ execution.status # "pending"
    /\ (\E k \in 1..Len(notifications) : notifications[k] \in Closing) =>
          execution.status \in Terminal
    /\ pc = "done" =>
          /\ Len(notifications) = 2
          /\ notifications[1] = "execution_started"
          /\ notifications[2] \in Closing
          /\ notifications[2] = "execution_completed"
                <=> execution.status = "completed"
          /\ execution.status \in {"failed", "rolled_back"} =>
                notifications[2] = "execution_failed"

\* The place of a stage in a run.
Order(stage) ==
    CASE stage = "pre_check" -> 1
      [] stage = "implementation" -> 2
      [] stage = "post_check" -> 3
      [] stage = "rollback" -> 4

\* Every command of the stage's list was sent, and met a successful
\* transport and a passing validation.
FinishedAndPassed(stage) ==
    /\ Passed(stage)
    /\ Cardinality(Sent(stage)) = Len(workflow[stage])
    /\ \A k \in Sent(stage) : Succeeded(attempts[k])

\* C14: the commands are sent in the order pre_check, implementation,
\* post_check, rollback, each list in its stored order; an implementation
\* command is sent only after every pre_check command has finished and
\* passed, a post_check command only after every implementation command has.
C14_Sequential ==
    /\ \A j, k \in 1..Len(attempts) :
          j < k => Order(attempts[j].stage) <= Order(attempts[k].stage)
    /\ \A s \in Stages : \A k \in Sent(s) :
          LET n == Cardinality({ j \in Sent(s) : j <= k })
          IN  /\ n <= Len(workflow[s])
              /\ attempts[k].command = workflow[s][n].command
              /\ attempts[k].regex_pattern = workflow[s][n].regex_pattern
    /\ Sent("implementation") # {} => FinishedAndPassed("pre_check")
    /\ Sent("post_check") # {} =>
          FinishedAndPassed("pre_check") /\ FinishedAndPassed("implementation")

\* A run has sent one command of each gating stage, then a rollback is due.
C14_Witness ==
    /\ Len(attempts) = 3
    /\ attempts[1].stage = "pre_check"
    /\ attempts[2].stage = "implementation"
    /\ attempts[3].stage = "post_check"
    /\ Failed("post_check")

\* The executor's answer for the k-th command sent is on a CommandExecution
\* row of its stage and on an entry of the stage's stored results.
Recorded(k) ==
    LET attempt == attempts[k]
        stored == execution[ResultsField(attempt.stage)]
    IN  /\ \E r \in Rows(attempt.stage) :
              /\ command_executions[r].command = attempt.command
              /\ command_executions[r].output = attempt.output
              /\ command_executions[r].status =
                     (IF attempt.success THEN "completed" ELSE "failed")
        /\ stored.stored
        /\ \E r \in 1..Len(stored.list) :
              /\ stored.list[r].command = attempt.command
              /\ stored.list[r].success = attempt.success
              /\ Get(stored.list[r], "output", attempt.output) = attempt.output

\* C15: once the rollback stage has returned, every command of the rollback
\* list was sent, in the order of the list, whatever the earlier ones met,
\* and each outcome is recorded; the run then ends 'rolled_back', with the
\* closing notification and nothing sent after the rollback.
C15_RollbackRunsThrough ==
    "rollback" \in DOMAIN stage_return =>
        /\ Cardinality(Sent("rollback")) = Len(workflow["rollback"])
        /\ \A k \in Sent("rollback") :
              /\ attempts[k].command =
                     workflow["rollback"]
                         [Cardinality({ j \in Sent("rollback") : j <= k })]
                             .command
              /\ Recorded(k)
        /\ attempts # << >> /\ workflow["rollback"] # << >> =>
              Last(attempts).stage = "rollback"
        /\ pc \in {"returned", "done"}
        /\ pc = "done" =>
              /\ execution.status = "rolled_back"
              /\ task_result = "rolled_back"
              /\ Last(notifications) = "execution_failed"

\* The first rollback command met a failed transport and a failed
\* validation, the second one was sent all the same, and the run has ended.
C15_Witness ==
    /\ pc = "done"
    /\ Cardinality(Sent("rollback")) = 2
    /\ \E k \in Sent("rollback") :
          /\ k + 1 \in Sent("rollback")
          /\ ~attempts[k].success
          /\ attempts[k].validation = "failed"

\* The first rollback command raised, and the second one was sent.
C15_WitnessRaised ==
    /\ pc = "done"
    /\ \E k \in Sent("rollback") :
          /\ k + 1 \in Sent("rollback")
          /\ attempts[k].validation = "raised"

----------------------------------------------------------------------------
(* A task delivered more than once *)

\* How many times execute_workflow is invoked for one execution.
MaxDeliveries == 2

\* execute_workflow is invoked again with the id of an execution whose task
\* has returned (a message delivered twice, a retry by hand): a new call
\* frame, the same rows in the store.
Redeliver ==
    /\ pc = "done"
    /\ Count("execution_started") < MaxDeliveries
    /\ pc' = "queued"
    /\ stage_name' = None
    /\ i' = 0
    /\ results' = << >>
    /\ stage_return' = [s \in {} |-> TRUE]
    /\ task_result' = None
    /\ UNCHANGED <<others, workflow, host, execution, command_executions,
                   notifications, attempts>>

NextRedelivery ==
    \/ Next
    \/ Redeliver

\* The task may be invoked again for the same execution.
RedeliverySpec == Init /\ [][NextRedelivery]_vars

\* C16: once the status of an execution is completed, failed or rolled_back,
\* no step changes the execution (its status, current_stage and stage
\* results) or sends or records a command for it.
C16_TerminalIsFinal ==
    [][ execution.status \in Terminal =>
          /\ execution' = execution
          /\ command_executions' = command_executions
          /\ attempts' = attempts ]_vars

----------------------------------------------------------------------------
(* automation/api_views.py, automation/api_viewsets.py: the triggers *)

\* The views that start a workflow on a device.
Views == {"execute_workflow_api", "workflow_execute", "execute"}

\* The dynamic_params a request to a trigger view may carry (the body read
\* by execute_workflow_api and by workflow_execute, the dynamic_params
\* field of WorkflowExecutionCreateSerializer): those of DynamicParams, and
\* objects keyed by a command text, which is what process_commands looks up.
RequestParams ==
    DynamicParams
    \cup { << [name |-> "show logging", is_str |-> TRUE, value |-> <<"UP">>] >>,
           << [name |-> "show logging", is_str |-> FALSE, value |-> <<"1">>] >> }

\* process_commands (api_views.py:300-335) raises: a dictionary command with
\* a pattern whose text is a key of dynamic_params with a value that is not
\* a string, handed to str.replace at line 314.
ProcessCommandsRaises(w, params) ==
    \E s \in Stages : \E k \in 1..Len(w[s]) : \E n \in 1..Len(params) :
        /\ w[s][k].is_dict
        /\ params[n].name = w[s][k].command
        /\ HasPattern(w[s][k].regex_pattern)
        /\ ~params[n].is_str

\* The request has been answered.
Respond(status, created, delayed) ==
    trigger' = [trigger EXCEPT !.at = "responded", !.status = status,
                               !.created = created, !.delayed = delayed]

\* execute_workflow.delay(str(execution.id)): one message for the worker.
Delay == pc' = "queued"

\* execute_workflow_api (api_views.py:263-363)
ExecuteWorkflowApi ==
    /\ trigger.at = "received"
    /\ trigger.view = "execute_workflow_api"
    /\ IF ~trigger.found
       THEN /\ Respond(404, 0, 0)
            /\ UNCHANGED <<execution, pc>>
       ELSE IF ProcessCommandsRaises(workflow, trigger.dynamic_params)
       THEN /\ execution' = NewExecution("pending", << >>)
            /\ Respond(500, 1, 0)
            /\ UNCHANGED pc
       ELSE /\ execution' = NewExecution("pending", trigger.dynamic_params)
            /\ Delay
            /\ Respond(200, 1, 1)
    /\ UNCHANGED <<workflow, host, command_executions, notifications,
                   stage_name, i, results, stage_return, task_result,
                   attempts, sessions, probe, suspended>>

\* workflow_execute (api_views.py:700-751): workflow_id and device_id are
\* read from the body, nothing else is.
WorkflowExecute ==
    /\ trigger.at = "received"
    /\ trigger.view = "workflow_execute"
    /\ IF ~trigger.found
       THEN /\ Respond(404, 0, 0)
            /\ UNCHANGED <<execution, pc>>
       ELSE /\ execution' = NewExecution("pre_check", << >>)
            /\ Delay
            /\ Respond(202, 1, 1)
    /\ UNCHANGED <<workflow, host, command_executions, notifications,
                   stage_name, i, results, stage_return, task_result,
                   attempts, sessions, probe, suspended>>

\* ExecutionViewSet.execute (api_viewsets.py:377-421): the validated
\* dynamic_params are not read.
Execute ==
    /\ trigger.at = "received"
    /\ trigger.view = "execute"
    /\ IF ~trigger.found
       THEN /\ Respond(404, 0, 0)
            /\ UNCHANGED <<execution, pc>>
       ELSE /\ execution' = NewExecution("pre_check", << >>)
            /\ Delay
            /\ Respond(202, 1, 1)
    /\ UNCHANGED <<workflow, host, command_executions, notifications,
                   stage_name, i, results, stage_return, task_result,
                   attempts, sessions, probe, suspended>>

\* A request has reached one of the views; no execution exists yet.
InitTrigger ==
    /\ \E l \in Lengths :
          workflow \in
              [pre_check : [1..l["pre_check"] -> Commands("pre_check")],
               implementation :
                   [1..l["implementation"] -> Commands("implementation")],
               post_check : [1..l["post_check"] -> Commands("post_check")],
               rollback : [1..l["rollback"] -> Commands("rollback")]]
    /\ host \in Hosts
    /\ host.credentials /\ host.enable_password = "set"
    /\ execution = NoExecution
    /\ command_executions = << >>
    /\ notifications = << >>
    /\ pc = "idle"
    /\ stage_name = None
    /\ i = 0
    /\ results = << >>
    /\ stage_return = [s \in {} |-> TRUE]
    /\ task_result = None
    /\ attempts = << >>
    /\ sessions = << >>
    /\ probe = None
    /\ suspended = NoContext
    /\ \E view \in Views : \E found \in BOOLEAN :
       \E params \in RequestParams :
          /\ trigger = [view |-> view, found |-> found,
                        dynamic_params |-> params, at |-> "received",
                        status |-> 0, created |-> 0, delayed |-> 0]

NextTrigger ==
    \/ ExecuteWorkflowApi
    \/ WorkflowExecute
    \/ Execute

\* One request to one of the trigger views.
TriggerSpec == InitTrigger /\ [][NextTrigger]_vars

\* C17: a trigger call that has answered has created no execution and
\* queued nothing, or has created one execution in status 'pending' and
\* queued one execute_workflow invocation for it.
C17_OneExecutionOneInvocation ==
    trigger.at = "responded" =>
        \/ /\ trigger.created = 0
           /\ trigger.delayed = 0
           /\ execution = NoExecution
           /\ pc = "idle"
        \/ /\ trigger.created = 1
           /\ trigger.delayed = 1
           /\ execution.status = "pending"
           /\ pc = "queued"

----------------------------------------------------------------------------
(* automation/ssh_utils.py: the steps of execute_command_on_device *)

\* How many times the executor is called in a row.
MaxCalls == 2

\* What one call meets on the network: the outcome of client.connect, of
\* shell.send / shell.recv, and what the device prints.
NetworkOutcomes ==
    [connect : {"ok", "AuthenticationException", "SSHException"},
     send : {"ok", "raise"},
     output : DeviceOutputs]

\* The same outcome as the executor operator reads it.
AsCall(net) ==
    [connect |-> net.connect = "ok", send |-> net.send, output |-> net.output]

\* The frame of the n-th call of execute_command_on_device(device, command).
Frame(n, net) ==
    [n |-> n, command |-> "show version", net |-> net, at |-> "start",
     exc |-> EmptyText, ret |-> << >>, raised |-> FALSE]

\* The positions of the frame inside `try:` (lines 133-150).
InTry(at) == at \in {"connect", "enable", "execute"}

\* An exception is raised at the frame's position: to `except Exception`
\* when inside the try statement, out of the function otherwise.
Raise(error) ==
    probe' = IF InTry(probe.at)
             THEN [probe EXCEPT !.at = "except", !.exc = error]
             ELSE [probe EXCEPT !.at = "raised", !.exc = error,
                                !.raised = TRUE]

\* Lines 116-131: read the credentials; without them return at once, else
\* build the SSHConnection object.
StartCall ==
    /\ probe.at = "start"
    /\ IF ~host.credentials
       THEN /\ probe' = [probe EXCEPT
                   !.at = "returned",
                   !.ret = <<FALSE, <<"TACACS credentials not configured">>>>]
            /\ UNCHANGED sessions
       ELSE /\ probe' = [probe EXCEPT !.at = "connect"]
            /\ sessions' = Append(sessions,
                               [client |-> "none", connected |-> FALSE])
    /\ UNCHANGED <<engine, host, trigger, suspended>>

\* Line 134 and SSHConnection.connect (lines 25-54): the client object is
\* made, then connected; a failure is logged and answered with False.
Connect ==
    /\ probe.at = "connect"
    /\ IF probe.net.connect = "ok"
       THEN /\ sessions' = [sessions EXCEPT
                   ![Len(sessions)] = [client |-> "open", connected |-> TRUE]]
            /\ probe' = [probe EXCEPT !.at = "enable"]
       ELSE /\ sessions' = [sessions EXCEPT
                   ![Len(sessions)] = [client |-> "open", connected |-> FALSE]]
            /\ probe' = [probe EXCEPT
                   !.at = "finally",
                   !.ret = <<FALSE, <<"Failed to connect to device">>>>]
    /\ UNCHANGED <<engine, host, trigger, suspended>>

\* Lines 136-137: `if device.enable_password:`
EnablePrivilege ==
    /\ probe.at = "enable"
    /\ IF host.enable_password = "missing"
       THEN Raise(<<"'Device' object has no attribute 'enable_password'">>)
       ELSE probe' = [probe EXCEPT !.at = "execute"]
    /\ UNCHANGED <<engine, host, trigger, sessions, suspended>>

\* Lines 140-147: ssh.execute_command(command) and `return success, output`.
ExecuteCommand ==
    /\ probe.at = "execute"
    /\ probe' = [probe EXCEPT
           !.at = "finally",
           !.ret = ssh_execute_command(AsCall(probe.net), probe.command)]
    /\ UNCHANGED <<engine, host, trigger, sessions, suspended>>

\* Lines 151-153: `except Exception as e: return False, str(e)`
Except ==
    /\ probe.at = "except"
    /\ probe' = [probe EXCEPT !.at = "finally", !.ret = <<FALSE, probe.exc>>]
    /\ UNCHANGED <<engine, host, trigger, sessions, suspended>>

\* Mutant of Disconnect: only a connected session is closed.
DisconnectIfConnected ==
    /\ probe.at = "finally"
    /\ sessions' = [sessions EXCEPT ![Len(sessions)] =
           IF @.connected
           THEN [client |-> "closed", connected |-> FALSE]
           ELSE @]
    /\ probe' = [probe EXCEPT !.at = "returned"]
    /\ UNCHANGED <<engine, host, trigger, suspended>>

\* Lines 154-155 and SSHConnection.disconnect (lines 105-110), then the
\* function returns.
Disconnect ==
    /\ probe.at = "finally"
    /\ sessions' = [sessions EXCEPT ![Len(sessions)] =
           IF @.client # "none"
           THEN [client |-> "closed", connected |-> FALSE]
           ELSE @]
    /\ probe' = [probe EXCEPT !.at = "returned"]
    /\ UNCHANGED <<engine, host, trigger, suspended>>

\* The stage runner calls the executor for its next command.
NextCall ==
    /\ probe.at = "returned"
    /\ probe.n < MaxCalls
    /\ \E net \in NetworkOutcomes : probe' = Frame(probe.n + 1, net)
    /\ UNCHANGED <<engine, host, trigger, sessions, suspended>>

InitExecutor ==
    /\ NoTask
    /\ host \in Hosts
    /\ trigger = None
    /\ sessions = << >>
    /\ suspended = NoContext
    /\ \E net \in NetworkOutcomes : probe = Frame(1, net)

NextExecutor ==
    \/ StartCall
    \/ Connect
    \/ EnablePrivilege
    \/ ExecuteCommand
    \/ Except
    \/ Disconnect
    \/ NextCall

\* MaxCalls calls of execute_command_on_device, one after the other.
ExecutorSpec == InitExecutor /\ [][NextExecutor]_vars

\* C18: no exception leaves execute_command_on_device; missing credentials,
\* a failed connect and an exception while sending or reading are answered
\* with (False, diagnostic); when the function has returned every session
\* made so far is closed, and a call never finds the session of an earlier
\* call open.  The answer is the one the executor operator gives.
C18_NeverRaisesAlwaysDisconnects ==
    /\ ~probe.raised
    /\ Len(sessions) <= probe.n
    /\ \A k \in 1..(Len(sessions) - 1) : sessions[k].client # "open"
    /\ probe.at = "start" =>
          \A k \in 1..Len(sessions) : sessions[k].client # "open"
    /\ probe.at = "returned" =>
          /\ \A k \in 1..Len(sessions) : sessions[k].client # "open"
          /\ probe.ret =
                 execute_command_on_device(host, AsCall(probe.net),
                                           probe.command)
          /\ (\/ ~host.credentials
              \/ probe.net.connect # "ok"
              \/ probe.net.send = "raise") =>
                    ~probe.ret[1] /\ probe.ret[2] # EmptyText

\* The first call could not connect, the second one ran its command; both
\* sessions are closed.
C18_Witness ==
    /\ probe.at = "returned"
    /\ probe.n = 2
    /\ probe.ret[1]
    /\ Len(sessions) = 2
    /\ sessions[1] = [client |-> "closed", connected |-> FALSE]
    /\ sessions[2] = [client |-> "closed", connected |-> FALSE]

----------------------------------------------------------------------------
(* Properties of the run under a store that may refuse a write *)

\* C19: when the task has returned, the execution is in a terminal status:
\* it is not left 'pending', 'running' or 'rolling_back'.
C19_TerminalAfterReturn ==
    pc = "done" => execution.status \in Terminal

----------------------------------------------------------------------------
(* Two tasks on two executions *)

\* Largest number of commands of the workflow run next to OtherWorkflow.
MaxConcurrentTotal == 1

\* The frame of the running task and the WorkflowExecution row it saves.
Context ==
    [workflow |-> workflow, host |-> host, execution |-> execution,
     notifications |-> notifications, pc |-> pc, stage_name |-> stage_name,
     i |-> i, results |-> results, stage_return |-> stage_return,
     task_result |-> task_result, attempts |-> attempts]

\* The frame of a task that a worker has not started yet, for execution id.
QueuedContext(id, w, h) ==
    [workflow |-> w, host |-> h,
     execution |-> [NewExecution("pre_check", << >>) EXCEPT !.id = id],
     notifications |-> << >>, pc |-> "queued", stage_name |-> None,
     i |-> 0, results |-> << >>, stage_return |-> [s \in {} |-> TRUE],
     task_result |-> None, attempts |-> << >>]

\* The workflows of the first execution: at most MaxConcurrentTotal commands.
ConcurrentWorkflows ==
    UNION { [pre_check : [1..l["pre_check"] -> Commands("pre_check")],
             implementation :
                 [1..l["implementation"] -> Commands("implementation")],
             post_check : [1..l["post_check"] -> Commands("post_check")],
             rollback : [1..l["rollback"] -> Commands("rollback")]] :
            l \in { m \in [Stages -> 0..MaxConcurrentTotal] :
                      m["pre_check"] + m["implementation"] + m["post_check"]
                          + m["rollback"] <= MaxConcurrentTotal } }

\* The workflow of the second execution: a change that is rolled back when
\* the device prints UP.
OtherWorkflow ==
    [pre_check |-> << >>,
     implementation |->
         << DictCommand("show logging", <<"UP">>, TRUE, "not_contains",
                        FALSE) >>,
     post_check |-> << >>,
     rollback |-> << DictCommand("show version", EmptyText, FALSE, "",
                                 FALSE) >>]

\* The worker pool goes on with the other task: the steps of two tasks
\* interleave, each task keeps its frame, the tables are shared.
Switch ==
    /\ suspended.pc \notin {"none", "done"}
    /\ workflow' = suspended.workflow
    /\ host' = suspended.host
    /\ execution' = suspended.execution
    /\ notifications' = suspended.notifications
    /\ pc' = suspended.pc
    /\ stage_name' = suspended.stage_name
    /\ i' = suspended.i
    /\ results' = suspended.results
    /\ stage_return' = suspended.stage_return
    /\ task_result' = suspended.task_result
    /\ attempts' = suspended.attempts
    /\ suspended' = Context
    /\ UNCHANGED <<command_executions, trigger, sessions, probe>>

\* Two executions have been created and their tasks queued, each for its
\* own device.
InitConcurrent ==
    /\ workflow \in ConcurrentWorkflows
    /\ host \in Hosts
    /\ host.credentials /\ host.enable_password = "set"
    /\ execution = NewExecution("pre_check", << >>)
    /\ command_executions = << >>
    /\ notifications = << >>
    /\ pc = "queued"
    /\ stage_name = None
    /\ i = 0
    /\ results = << >>
    /\ stage_return = [s \in {} |-> TRUE]
    /\ task_result = None
    /\ attempts = << >>
    /\ trigger = None
    /\ sessions = << >>
    /\ probe = None
    /\ suspended = QueuedContext(2, OtherWorkflow, host)

NextConcurrent ==
    \/ Next
    \/ Switch

\* Two execute_workflow tasks run concurrently on two executions.
ConcurrentSpec == InitConcurrent /\ [][NextConcurrent]_vars

\* The frame of the task of an execution.
ContextOf(id) == IF execution.id = id THEN Context ELSE suspended

\* The CommandExecution rows of an execution, in the order of the table.
RowsOfExecution(id) ==
    SelectSeq(command_executions, LAMBDA row : row.workflow_execution = id)

\* The answers the device gave to the task of frame c for a stage.
AttemptsOf(c, stage) ==
    SelectSeq(c.attempts, LAMBDA attempt : attempt.stage = stage)

\* Some command of the stage did not succeed, given those answers.
FailedIn(c, stage) ==
    \E k \in 1..Len(c.attempts) :
        c.attempts[k].stage = stage /\ ~Succeeded(c.attempts[k])

\* What a run alone leaves in the execution, given the answers of the
\* device: the status, the stage and the error message.
SoloOutcome(c) ==
    CASE FailedIn(c, "pre_check") ->
            [status |-> "failed", current_stage |-> "pre_check",
             error_message |-> "Pre-check validation failed"]
      [] ~FailedIn(c, "pre_check") /\ FailedIn(c, "implementation") ->
            [status |-> "rolled_back", current_stage |-> "rollback",
             error_message |-> ""]
      [] /\ ~FailedIn(c, "pre_check") /\ ~FailedIn(c, "implementation")
         /\ FailedIn(c, "post_check") ->
            [status |-> "rolled_back", current_stage |-> "rollback",
             error_message |-> "Post-check validation failed"]
      [] OTHER ->
            [status |-> "completed", current_stage |-> "completed",
             error_message |-> ""]

\* The stage is run by a run alone, given the answers of the device.
SoloRuns(c, stage) ==
    CASE stage = "pre_check" -> TRUE
      [] stage = "implementation" -> ~FailedIn(c, "pre_check")
      [] stage = "post_check" ->
            ~FailedIn(c, "pre_check") /\ ~FailedIn(c, "implementation")
      [] stage = "rollback" ->
            /\ ~FailedIn(c, "pre_check")
            /\ FailedIn(c, "implementation") \/ FailedIn(c, "post_check")

\* What a run alone leaves in the result column of a stage: nothing when
\* the stage is not run or ends on a failed validation, else one entry per
\* answer of the device.
SoloResults(c, stage) ==
    LET answers == AttemptsOf(c, stage)
        early == /\ stage # "rollback"
                 /\ \E k \in 1..Len(answers) :
                       answers[k].validation = "failed"
    IN  IF ~SoloRuns(c, stage) \/ early
        THEN << >>
        ELSE [k \in 1..Len(answers) |->
                 [command |-> answers[k].command,
                  success |-> answers[k].success,
                  output |-> answers[k].output,
                  validation_passed |-> answers[k].validation # "failed"]]

\* The entries of a result column, without the validation detail.
Entries(blob) ==
    [k \in 1..Len(blob.list) |->
        [command |-> blob.list[k].command,
         success |-> blob.list[k].success,
         output |-> blob.list[k].output,
         validation_passed |-> blob.list[k].validation_passed]]

\* The task of frame c has returned and left in its execution and in its
\* CommandExecution rows what a run alone leaves, given the same answers
\* of the device.
AsAlone(c) ==
    c.pc = "done" =>
        /\ c.execution.status = SoloOutcome(c).status
        /\ c.execution.current_stage = SoloOutcome(c).current_stage
        /\ c.execution.error_message = SoloOutcome(c).error_message
        /\ \A s \in Stages :
              Entries(c.execution[ResultsField(s)]) = SoloResults(c, s)
        /\ LET rows == RowsOfExecution(c.execution.id)
           IN  /\ Len(rows) = Len(c.attempts)
               /\ \A k \in 1..Len(rows) :
                     /\ rows[k].stage = c.attempts[k].stage
                     /\ rows[k].command = c.attempts[k].command
                     /\ rows[k].output = c.attempts[k].output
                     /\ rows[k].status = (IF c.attempts[k].success
                                          THEN "completed" ELSE "failed")

\* Under Spec: a run alone, without dynamic_params, leaves what SoloOutcome
\* and SoloResults say.
RunAloneAsAlone == execution.dynamic_params = << >> => AsAlone(Context)

\* C20 (final state): whatever the interleaving, each of the two executions
\* ends with the status, current_stage, error_message, stage results and
\* CommandExecution rows of its run alone under the same device answers.
C20_FinalAsAlone ==
    AsAlone(ContextOf(1)) /\ AsAlone(ContextOf(2))

\* C20: a step of one task leaves the execution, the frame and the
\* CommandExecution rows of the other task as they are, and each execution
\* ends as its run alone does.
C20_Independent ==
    /\ []C20_FinalAsAlone
    /\ [][ execution'.id = execution.id =>
             /\ suspended' = suspended
             /\ RowsOfExecution(suspended.execution.id)'
                    = RowsOfExecution(suspended.execution.id) ]_vars

\* Both tasks have returned after their commands interleaved: the second
\* execution recorded its first command before the first execution did and
\* its rollback command after, and the two ended differently.
C20_Witness ==
    /\ pc = "done"
    /\ suspended.pc = "done"
    /\ Len(command_executions) = 3
    /\ command_executions[1].workflow_execution = 2
    /\ command_executions[2].workflow_execution = 1
    /\ command_executions[3].workflow_execution = 2
    /\ ContextOf(1).execution.status = "completed"
    /\ ContextOf(2).execution.status = "rolled_back"

----------------------------------------------------------------------------
(* automation/webhook_utils.py: the steps of send_webhook_notification *)

\* Largest number of active rows of the WebhookConfiguration table.
MaxWebhooks == 2

\* Largest number of commands of a workflow whose notifications are
\* delivered step by step.
MaxNotifiedTotal == 1

\* WebhookConfiguration.WEBHOOK_EVENTS
WebhookEvents ==
    {"execution_completed", "execution_failed", "execution_started",
     "all_events"}

\* WebhookConfiguration.get_events_list
get_events_list(config) ==
    IF config.events = "all_events"
    THEN {"execution_completed", "execution_failed", "execution_started"}
    ELSE {config.events}

\* What WebhookConfiguration.objects.filter(is_active=True) may answer: the
\* active rows of the table at the time of the call.
WebhookTables ==
    UNION { [1..n -> [is_active : {TRUE}, events : WebhookEvents]] :
            n \in 0..MaxWebhooks }

\* What one call of _send_single_webhook meets: _prepare_payload raises,
\* requests.post raises a RequestException (and the SystemLog row of the
\* handler is written, or its write raises), requests.post or json.dumps
\* raises something else, the endpoint answers 500, the endpoint answers
\* 200 and the SystemLog write raises, the endpoint answers 200.
Deliveries ==
    {"payload_raises", "timeout", "timeout_log_raises", "post_raises",
     "status_500", "log_raises", "status_200"}

\* _send_single_webhook(config, workflow_execution, event_type): the value
\* returned, or the exception that leaves the function.
send_single_webhook(delivery) ==
    CASE delivery = "status_200" -> [raised |-> FALSE, ret |-> TRUE]
      [] delivery = "status_500" -> [raised |-> FALSE, ret |-> FALSE]
      [] delivery \in {"payload_raises", "post_raises", "log_raises"} ->
            [raised |-> FALSE, ret |-> FALSE]
      [] delivery = "timeout" -> [raised |-> FALSE, ret |-> FALSE]
      [] delivery = "timeout_log_raises" -> [raised |-> TRUE, ret |-> FALSE]

\* No call of send_webhook_notification is in progress; `returns` holds
\* the value each call so far has returned, `caught` whether line 50 has
\* caught an exception of _send_single_webhook.
NoNotification ==
    [at |-> "idle", event_type |-> None, webhooks_to_trigger |-> << >>,
     j |-> 0, success_count |-> 0, returns |-> << >>, raised |-> FALSE,
     caught |-> FALSE]

\* The task is not inside send_webhook_notification.
Delivered == probe.at = "idle" /\ Len(probe.returns) = Len(notifications)

\* send_webhook_notification returns value to execute_workflow.
ReturnNotification(value) ==
    probe' = [probe EXCEPT !.at = "idle",
                           !.returns = Append(probe.returns, value)]

\* Lines 24-41 with the query outside the try: its exception leaves the
\* function.
SendWebhookNotificationUnguarded ==
    /\ probe.at = "idle"
    /\ Len(probe.returns) < Len(notifications)
    /\ \E raises \in BOOLEAN :
          IF raises
          THEN probe' = [probe EXCEPT !.at = "raised", !.raised = TRUE]
          ELSE ReturnNotification(FALSE)
    /\ UNCHANGED <<engine, host, trigger, sessions, suspended>>

\* Lines 24-41 and 56-58: the query raises and False is returned, or it
\* answers the active configurations and those of the event are kept;
\* return False when there is none.
SendWebhookNotification ==
    /\ probe.at = "idle"
    /\ Len(probe.returns) < Len(notifications)
    /\ \/ ReturnNotification(FALSE)
       \/ \E webhook_configs \in WebhookTables :
             LET event_type == notifications[Len(probe.returns) + 1]
                 webhooks_to_trigger ==
                     SelectSeq(webhook_configs,
                         LAMBDA config :
                             event_type \in get_events_list(config))
             IN  IF webhook_configs = << >>
                 THEN ReturnNotification(FALSE)
                 ELSE IF webhooks_to_trigger = << >>
                 THEN ReturnNotification(FALSE)
                 ELSE probe' = [probe EXCEPT
                          !.at = "loop",
                          !.event_type = event_type,
                          !.webhooks_to_trigger = webhooks_to_trigger,
                          !.j = 1,
                          !.success_count = 0]
    /\ UNCHANGED <<engine, host, trigger, sessions, suspended>>

\* Lines 45-52: one iteration of `for config in webhooks_to_trigger`; an
\* exception of _send_single_webhook is logged and the loop goes on.
SendSingleWebhook ==
    /\ probe.at = "loop"
    /\ probe.j <= Len(probe.webhooks_to_trigger)
    /\ \E delivery \in Deliveries :
          LET r == send_single_webhook(delivery)
          IN  probe' = [probe EXCEPT
                  !.j = probe.j + 1,
                  !.success_count =
                      IF ~r.raised /\ r.ret
                      THEN probe.success_count + 1
                      ELSE probe.success_count,
                  !.caught = probe.caught \/ r.raised]
    /\ UNCHANGED <<engine, host, trigger, sessions, suspended>>

\* Line 54: return success_count > 0.
LoopDone ==
    /\ probe.at = "loop"
    /\ probe.j > Len(probe.webhooks_to_trigger)
    /\ ReturnNotification(probe.success_count > 0)
    /\ UNCHANGED <<engine, host, trigger, sessions, suspended>>

\* The workflows of the executions whose notifications are delivered.
NotifiedWorkflows ==
    UNION { [pre_check : [1..l["pre_check"] -> Commands("pre_check")],
             implementation :
                 [1..l["implementation"] -> Commands("implementation")],
             post_check : [1..l["post_check"] -> Commands("post_check")],
             rollback : [1..l["rollback"] -> Commands("rollback")]] :
            l \in { m \in [Stages -> 0..MaxNotifiedTotal] :
                      m["pre_check"] + m["implementation"] + m["post_check"]
                          + m["rollback"] <= MaxNotifiedTotal } }

\* workflow_execute has created the execution and queued its task.
InitWebhook ==
    /\ workflow \in NotifiedWorkflows
    /\ host \in Hosts
    /\ execution = NewExecution("pre_check", << >>)
    /\ command_executions = << >>
    /\ notifications = << >>
    /\ pc = "queued"
    /\ stage_name = None
    /\ i = 0
    /\ results = << >>
    /\ stage_return = [s \in {} |-> TRUE]
    /\ task_result = None
    /\ attempts = << >>
    /\ trigger = None
    /\ sessions = << >>
    /\ probe = NoNotification
    /\ suspended = NoContext

\* execute_workflow goes on when send_webhook_notification has returned.
NextWebhook ==
    \/ Delivered /\ Next
    \/ SendWebhookNotification
    \/ SendSingleWebhook
    \/ LoopDone

\* execute_workflow with each call of send_webhook_notification run step
\* by step against webhook endpoints that may fail.
WebhookSpec == InitWebhook /\ [][NextWebhook]_vars

\* C21: whatever a delivery meets (no configuration for the event, a
\* failing query, a timeout, a non-200 answer, an exception while the
\* payload is built or the SystemLog row written), no exception leaves
\* send_webhook_notification, its steps leave the execution, its rows and
\* the frame of the task as they are, and the execution ends with the
\* status, current_stage, error_message and stage results that the answers
\* of the device alone determine.
C21_DeliveryFailureContained ==
    /\ [](~probe.raised /\ AsAlone(Context))
    /\ [][ probe' # probe =>
             UNCHANGED <<execution, command_executions, pc, stage_name, i,
                         results, stage_return, task_result>> ]_vars

\* A run has completed although neither notification was delivered: a
\* delivery timed out and the SystemLog write of the handler raised.
C21_Witness ==
    /\ pc = "done"
    /\ execution.status = "completed"
    /\ probe.returns = <<FALSE, FALSE>>
    /\ probe.caught

----------------------------------------------------------------------------
(* Properties of the rows, the parameters and the columns of an execution *)

\* C22: when a stage call has returned, the stage has one CommandExecution
\* row for each of its commands that was attempted, the command whose
\* processing raised included, and each of these rows is 'completed' or
\* 'failed'.
C22_OneRowPerCommand ==
    pc = "returned" =>
        /\ Cardinality(Rows(stage_name)) = Cardinality(Sent(stage_name))
        /\ \A k \in Rows(stage_name) :
              command_executions[k].status \in {"completed", "failed"}

\* C23: whichever view is called, the dynamic_params of the request are on
\* the new execution when its task is queued, and no step changes the
\* dynamic_params of an execution afterwards, so that every stage
\* substitutes from the caller's map.
C23_ParamsStoredAndKept ==
    /\ [](trigger.delayed = 1 =>
             execution.dynamic_params = trigger.dynamic_params)
    /\ [][ execution # NoExecution =>
             execution'.dynamic_params = execution.dynamic_params ]_vars

\* C24: with the TACACS credentials configured, a session that connects
\* and a command that is sent and whose output is drained without error,
\* execute_command_on_device returns (True, the output drained); it reads
\* no credential field of the Device row, so nothing of the row can make
\* the call fail.
C24_ExecutesWithCentralCredentials ==
    /\ probe.at = "returned"
    /\ host.credentials
    /\ probe.net.connect = "ok"
    /\ probe.net.send = "ok"
    => probe.ret = <<TRUE, probe.net.output>>

\* C25: an execution in status 'failed' or 'rolled_back' has a non-empty
\* error_message, whichever stage failed.
C25_FailureHasMessage ==
    execution.status \in {"failed", "rolled_back"} =>
        execution.error_message # ""

\* WorkflowExecution.EXECUTION_STAGE: the declared values of current_stage.
EXECUTION_STAGE ==
    {"pre_check", "implementation", "post_check", "rollback", "completed"}

\* C26: while the execution is 'running', the persisted current_stage is a
\* declared stage value, and while a stage call is executing its commands
\* it names that stage.
C26_CurrentStageNamesStage ==
    execution.status = "running" =>
        /\ execution.current_stage \in EXECUTION_STAGE
        /\ pc = "stage" => execution.current_stage = stage_name

\* C27: completed_at is set exactly when the status is terminal, and
\* started_at is set whenever the status is not 'pending'.
C27_Timestamps ==
    /\ execution.completed_at # None <=> execution.status \in Terminal
    /\ execution.status # "pending" => execution.started_at # None

----------------------------------------------------------------------------
(* automation/tasks.py: cleanup_old_executions next to a running task *)

\* WorkflowExecution.EXECUTION_STATUS
EXECUTION_STATUS ==
    {"pending", "running", "completed", "failed", "cancelled",
     "rolling_back", "rolled_back"}

\* Mutant of old_executions: the filter on the status is missing.
older_executions(status, old) == old

\* The filter of lines 258-261: created before the cutoff of 30 days
\* (`old`) and in one of the four listed statuses.
old_executions(status, old) ==
    old /\ status \in {"completed", "failed", "cancelled", "rolled_back"}

\* The row of another execution, which no task is running here.
OtherExecutions == [status : EXECUTION_STATUS, old : BOOLEAN, exists : {TRUE}]

\* cleanup_old_executions(): the rows the filter selects are deleted, and
\* with them their CommandExecution rows (on_delete=CASCADE).
CleanupOldExecutions ==
    /\ probe' = [probe EXCEPT
           !.exists = @ /\ ~old_executions(execution.status, probe.old),
           !.other.exists =
               @ /\ ~old_executions(probe.other.status, probe.other.old)]
    /\ command_executions' =
           IF probe.exists /\ old_executions(execution.status, probe.old)
           THEN SelectSeq(command_executions,
                    LAMBDA row : row.workflow_execution # execution.id)
           ELSE command_executions
    /\ UNCHANGED <<workflow, host, execution, notifications, pc, stage_name,
                   i, results, stage_return, task_result, attempts, trigger,
                   sessions, suspended>>

\* Time passes: created_at of a row falls behind the cutoff.
DayPasses ==
    /\ \/ ~probe.old /\ probe' = [probe EXCEPT !.old = TRUE]
       \/ ~probe.other.old /\ probe' = [probe EXCEPT !.other.old = TRUE]
    /\ UNCHANGED <<engine, host, trigger, sessions, suspended>>

\* An execution has been created, recently or more than 30 days ago, and
\* its task queued; the table holds the row of another execution too.
InitCleanup ==
    /\ workflow \in NotifiedWorkflows
    /\ host \in Hosts
    /\ execution = NewExecution("pre_check", << >>)
    /\ command_executions = << >>
    /\ notifications = << >>
    /\ pc = "queued"
    /\ stage_name = None
    /\ i = 0
    /\ results = << >>
    /\ stage_return = [s \in {} |-> TRUE]
    /\ task_result = None
    /\ attempts = << >>
    /\ trigger = None
    /\ sessions = << >>
    /\ \E old \in BOOLEAN : \E other \in OtherExecutions :
          probe = [exists |-> TRUE, old |-> old, other |-> other]
    /\ suspended = NoContext

NextCleanup ==
    \/ Next
    \/ CleanupOldExecutions
    \/ DayPasses

\* cleanup_old_executions runs at any point of a run of execute_workflow.
CleanupSpec == InitCleanup /\ [][NextCleanup]_vars

\* C28: a row that cleanup has deleted was created more than 30 days ago
\* and was 'completed', 'failed', 'cancelled' or 'rolled_back'; the row of
\* an execution whose task has not returned is never deleted.
C28_CleanupDeletesOnlyExpired ==
    /\ ~probe.exists =>
          /\ probe.old
          /\ execution.status \in
                 {"completed", "failed", "cancelled", "rolled_back"}
    /\ ~probe.other.exists =>
          /\ probe.other.old
          /\ probe.other.status \in
                 {"completed", "failed", "cancelled", "rolled_back"}
    /\ pc # "done" => probe.exists
    /\ execution.status \in {"pending", "running", "rolling_back"} =>
          probe.exists

\* Cleanup ran while the task was running and again after it had returned:
\* the rolled-back execution and its rows are gone, the old row of another
\* execution that is still 'running' is kept.
C28_Witness ==
    /\ pc = "done"
    /\ execution.status = "rolled_back"
    /\ Len(attempts) > 0
    /\ command_executions = << >>
    /\ ~probe.exists
    /\ probe.other = [status |-> "running", old |-> TRUE, exists |-> TRUE]

----------------------------------------------------------------------------
(* Properties of validate_output and of the stage runner, continued *)

\* C29: for a pattern that re cannot compile, validate_output answers
\* (False, the text of the error) under every operator, 'not_equal' and
\* 'not_contains' included: it passes under none.
C29_InvalidPatternFails ==
    InvalidPattern(probe.regex) =>
        \A o \in DOMAIN probe.returns :
            /\ ~probe.returns[o][1]
            /\ probe.returns[o][2] # EmptyText

\* validate_output has been called under the four operators on an output
\* and a pattern with an unbalanced parenthesis.
C29_Witness ==
    /\ InvalidPattern(probe.regex)
    /\ probe.output = <<"UP">>
    /\ DOMAIN probe.returns = Operators

\* C30: a step of execute_workflow_stage for a stage changes, of the
\* execution, nothing but the result column of that stage: the columns of
\* the three other stages, status, current_stage, error_message and
\* dynamic_params stay as they are, and so do the command lists of the
\* workflow.
C30_StageWritesOwnResults ==
    [][ pc = "stage" =>
          /\ \A s \in Stages \ {stage_name} :
                execution'[ResultsField(s)] = execution[ResultsField(s)]
          /\ execution'.status = execution.status
          /\ execution'.current_stage = execution.current_stage
          /\ execution'.error_message = execution.error_message
          /\ execution'.dynamic_params = execution.dynamic_params
          /\ workflow' = workflow ]_vars

\* The implementation stage has stored the results of its commands next to
\* those of the pre_check stage, in a running execution.
C30_Witness ==
    /\ pc = "returned"
    /\ stage_name = "implementation"
    /\ execution.status = "running"
    /\ execution.implementation_results.stored
    /\ Len(execution.implementation_results.list) > 0
    /\ execution.pre_check_results.stored
    /\ Len(execution.pre_check_results.list) > 0
    /\ ~execution.post_check_results.stored

====
